---- MODULE Spec2Model ----
(***************************************************************************)
(* A model of uqchessserver (src/A4/uqchessserver.c): the per-connection   *)
(* workers, the wait list, the registry of connected clients, the          *)
(* GameState records on the heap and the single shared chess engine.       *)
(*                                                                         *)
(* A command handler is one action.  The handler's code is written as a    *)
(* chain of operators over a record M that holds the mutable memory of the *)
(* server, one operator per C function, composed in the order of the       *)
(* code.  M.halt records that the handler did not run to its end: "segv"   *)
(* after a NULL dereference, "hse" after a failed write to the engine      *)
(* (handle_stockfish_exit).  A freed GameState keeps its last contents     *)
(* (alive = FALSE); touching it is undefined behaviour, modelled as the    *)
(* choice between going on with the stale contents and a crash.            *)
(***************************************************************************)
EXTENDS Integers, Sequences, FiniteSets, TLC

\* ------------------------------------------------------------------ bounds

\* GameState records allocated in one run of the server
MaxGames == 2

\* the same, in the runs that play a restricted set of lines
MaxGamesLong == 3

\* ------------------------------------------------------------- identities

Clients == {"a", "b", "c"}

\* clients are interchangeable: they connect in this order
ConnectOrder == <<"a", "b", "c">>

NoClient == "NULL"

NoGame == 0

\* addresses of GameState records
GameIds == 1..MaxGamesLong

\* --------------------------------------------------------------- constants

ERROR_STOCKFISH_UNEXPECTED_EXIT == 5

MIN_MOVE_STRING_LENGTH == 4

MAX_MOVE_STRING_LENGTH == 5

\* --------------------------------------------------- the engine (external)

\* A FEN is abstracted to its side to move and the state of that side:
\* "" quiet, "+" in check, "#" checkmated, "=" stalemated.
Fens == {"w", "b", "w+", "b+", "w#", "b#", "w=", "b="}

initialFen == "w"

WhiteFens == {"w", "w+", "w#", "w="}

TerminalFens == {"w#", "b#", "w=", "b="}

CheckFens == {"w+", "b+", "w#", "b#"}

\* the library's next_player_from_fen_string
next_player_from_fen_string(fen) == IF fen \in WhiteFens THEN "w" ELSE "b"

\* the moves the engine accepts in a quiet position
LegalMoves == {"e2e4", "d1h5", "h5f7", "g7g8q"}

\* the suffix a legal move gives the position it leads to
MoveTag(move) ==
    CASE move = "e2e4" -> ""
      [] move = "d1h5" -> "+"
      [] move = "h5f7" -> "#"
      [] OTHER -> "="

\* the moves "go perft 1" lists, in the engine's order: none in a terminal
\* position, and a side in check cannot play d1h5
EngineMoves(fen) ==
    IF fen \in TerminalFens THEN << >>
    ELSE IF fen \in CheckFens THEN <<"e2e4", "h5f7", "g7g8q">>
    ELSE <<"e2e4", "d1h5", "h5f7", "g7g8q">>

\* "position fen <fen> moves <move>" followed by "d": the engine ignores a
\* move that is not legal and reports the position unchanged
EngineApply(fen, move) ==
    IF \E i \in 1..Len(EngineMoves(fen)) : EngineMoves(fen)[i] = move
    THEN (IF fen \in WhiteFens THEN "b" ELSE "w") \o MoveTag(move)
    ELSE fen

\* the Checkers: field of "d" is not empty
EngineCheckers(fen) == fen \in CheckFens

\* ------------------------------------------------------------ client input

\* the characters of the move strings clients send
MoveChars(move) ==
    CASE move = "e2e4" -> <<"e", "2", "e", "4">>
      [] move = "d1h5" -> <<"d", "1", "h", "5">>
      [] move = "h5f7" -> <<"h", "5", "f", "7">>
      [] move = "g7g8q" -> <<"g", "7", "g", "8", "q">>
      [] move = "a1a1" -> <<"a", "1", "a", "1">>
      [] move = "e2" -> <<"e", "2">>
      [] move = "e2-e4" -> <<"e", "2", "-", "e", "4">>
      [] OTHER -> << >>

\* move strings a client may send: legal ones, one the engine rejects, and
\* two that fail the syntactic check
MoveInputs == LegalMoves \cup {"a1a1", "e2", "e2-e4"}

Colours == {"white", "black", "either"}

Opponents == {"human", "computer"}

HintOptions == {"best", "all", "worst"}

Cmd(op, a1, a2) == [op |-> op, a1 |-> a1, a2 |-> a2]

StartCmds == {Cmd("start", o, k) : o \in Opponents, k \in Colours}

MoveCmds == {Cmd("move", mv, "") : mv \in MoveInputs}

HintCmds == {Cmd("hint", h, "") : h \in HintOptions}

OtherCmds == {Cmd("board", "", ""), Cmd("resign", "", ""), Cmd("junk", "", "")}

Eof == Cmd("eof", "", "")

NoCmd == Cmd("", "", "")

\* a line a client may send
Lines == StartCmds \cup MoveCmds \cup HintCmds \cup OtherCmds

\* ---------------------------------------------------------------- messages

Msg(kind, a, b) == <<kind, a, b>>

ErrorMsg(kind) == Msg("error", kind, "")

VARIABLES
    cl,          \* Client structs: phase of the worker, flags, game pointer
    games,       \* the GameState heap
    pool,        \* the clients that connect in this run
    allocs,      \* GameState records allocated so far
    waitList,    \* ClientList of clients waiting for a human opponent
    connected,   \* ClientList engine->notifyOnError
    engineAlive, \* the engine child process is running
    enginePos,   \* the position the engine holds
    engineLock,  \* holder of engine->lock
    gameLocks,   \* holders of the GameState locks
    pc,          \* where each worker is
    scan,        \* the loop index of each worker in find_opponent
    server,      \* "running", "exited" or "crashed"
    exitCode,    \* the exit code once exited
    pending,     \* the line a worker has read and is about to handle
    sent,        \* the lines written to each client by the last step
    errs,        \* "error engine" lines written to each client so far
    atDeath,     \* the clients of the registry when the engine died
    ub,          \* a freed GameState has been touched (undefined behaviour)
    doing,       \* the line of a worker whose handler is between two steps
    asked,       \* how the last step talked to the engine: "none", "locked"
                 \* (holding engine->lock throughout) or "unlocked"
    marks,       \* what the last step did with the locks it should hold
    overs,       \* gameover lines written to each client since its last
                 \* "started" line, counted up to 2
    last         \* the worker that made the last step, and what it handled

vars == <<cl, games, pool, allocs, waitList, connected, engineAlive, enginePos,
          engineLock, gameLocks, pc, scan, server, exitCode, pending, sent,
          errs, atDeath, ub, doing, asked, marks, overs, last>>

\* ------------------------------------------------------------ the memory M

\* a Client struct before get_client_info has filled it; req is the colour
\* named by the client's most recent start line (not a field of the struct)
NewClient ==
    [phase |-> "new", human |-> FALSE, white |-> FALSE, either |-> FALSE,
     hasPlayed |-> FALSE, game |-> NoGame, req |-> ""]

\* a slot of the heap that holds no GameState yet
NoGameState ==
    [alive |-> FALSE, whiteClient |-> NoClient, blackClient |-> NoClient,
     started |-> FALSE, fenString |-> initialFen]

NoSent == [c \in Clients |-> << >>]

\* the memory a handler run by worker c starts from; best is the move the
\* engine will name for "go movetime", crashOnUb the outcome of touching a
\* freed GameState in this run; touched records that the run did touch one
Memory(best, crashOnUb) ==
    [cl |-> cl, games |-> games, newGame |-> NoGame, waitList |-> waitList,
     connected |-> connected, enginePos |-> enginePos, sent |-> NoSent,
     ub |-> ub, touched |-> FALSE, halt |-> "", heldEngine |-> FALSE, heldGame |-> NoGame,
     ret |-> FALSE, status |-> "OK", best |-> best, crashOnUb |-> crashOnUb,
     asked |-> "none", checkers |-> FALSE, heldWait |-> FALSE,
     heldReg |-> FALSE, marks |-> {}, eof |-> "no", died |-> FALSE]

Running(M) == M.halt = ""

\* a NULL pointer is dereferenced
Segv(M) == [M EXCEPT !.halt = "segv"]

\* the run has done m, which the rules on locks forbid
Mark(M, m) == [M EXCEPT !.marks = @ \cup {m}]

\* a player slot, the started flag or the FEN of GameState g is written
Wrote(M, g) == IF M.heldGame = g THEN M ELSE Mark(M, "bare_write")

\* the entries of a ClientList (the wait list or the registry) are written
WroteList(M, list) ==
    IF (list = "waitList" /\ M.heldWait) \/ (list = "connected" /\ M.heldReg)
    THEN M ELSE Mark(M, "bare_write")

\* sem_wait(list->lock); "list_inside" marks a list's lock taken by a worker
\* that holds another lock
sem_wait_list(M, list) ==
    IF ~Running(M) THEN M
    ELSE IF list = "waitList"
    THEN [(IF M.heldEngine \/ M.heldGame # NoGame \/ M.heldReg
           THEN Mark(M, "list_inside") ELSE M) EXCEPT !.heldWait = TRUE]
    ELSE [(IF M.heldEngine \/ M.heldGame # NoGame \/ M.heldWait
           THEN Mark(M, "list_inside") ELSE M) EXCEPT !.heldReg = TRUE]

\* sem_post(list->lock)
sem_post_list(M, list) ==
    IF ~Running(M) THEN M
    ELSE IF list = "waitList" THEN [M EXCEPT !.heldWait = FALSE]
    ELSE [M EXCEPT !.heldReg = FALSE]

\* sem_wait(game->lock) of GameState g
sem_wait_game(M, g) ==
    IF ~Running(M) THEN M
    ELSE [(IF M.heldWait \/ M.heldReg THEN Mark(M, "leaf") ELSE M)
             EXCEPT !.heldGame = g]

\* a handler that returns without sem_post(game->lock)
sem_post_game_forgotten(M) == M

\* sem_post(game->lock)
sem_post_game(M) ==
    IF ~Running(M) THEN M ELSE [M EXCEPT !.heldGame = NoGame]

\* GameState g is read or written through a pointer
Touch(M, g) ==
    IF ~Running(M) THEN M
    ELSE IF g = NoGame THEN Segv(M)
    ELSE IF M.games[g].alive THEN M
    ELSE IF M.crashOnUb THEN Segv(M)
    ELSE [M EXCEPT !.ub = TRUE, !.touched = TRUE]

free_game_state(M, g) ==
    LET M1 == Touch(M, g)
    IN  IF ~Running(M1) THEN M1
        ELSE [M1 EXCEPT !.games[g].alive = FALSE]

send_to_client(M, msg, c) ==
    IF ~Running(M) THEN M
    ELSE IF c = NoClient THEN Segv(M)
    ELSE [M EXCEPT !.sent[c] = Append(@, msg)]

get_opponent(M, c) ==
    IF M.cl[c].white
    THEN M.games[M.cl[c].game].blackClient
    ELSE M.games[M.cl[c].game].whiteClient

send_error(M, c, error) ==
    send_to_client(M,
        CASE error = "ENGINE" -> ErrorMsg("engine")
          [] error = "COMMAND" -> ErrorMsg("command")
          [] error = "GAME" -> ErrorMsg("game")
          [] error = "TURN" -> ErrorMsg("turn")
          [] OTHER -> ErrorMsg("move"),
        c)

\* evaluates v once and hands it on to the statements F that follow
Then(v, F(_)) == F(v)

remove_from_list(list, remove) == SelectSeq(list, LAMBDA x : x # remove)

send_started(M, c) ==
    IF ~Running(M) THEN M
    ELSE send_to_client([M EXCEPT !.cl[c].hasPlayed = TRUE],
             Msg("started", IF M.cl[c].white THEN "white" ELSE "black", ""),
             c)

send_ok(M, c) == send_to_client(M, Msg("ok", "", ""), c)

is_game_over(status) == status \in {"CHECKMATE", "STALEMATE", "RESIGN"}

\* the winner named in a gameover line for GameState g
Winner(M, g) ==
    IF next_player_from_fen_string(M.games[g].fenString) = "w"
    THEN "black" ELSE "white"

send_gameover(M, c, reason) ==
    IF ~Running(M) THEN M
    ELSE IF c = NoClient THEN Segv(M)
    ELSE Then(Touch(M, M.cl[c].game), LAMBDA M1 :
         IF ~Running(M1) THEN M1
         ELSE IF reason = "CHECKMATE"
         THEN send_to_client(M1,
                  Msg("gameover", "checkmate", Winner(M1, M1.cl[c].game)), c)
         ELSE IF reason = "STALEMATE"
         THEN send_to_client(M1, Msg("gameover", "stalemate", ""), c)
         ELSE IF reason = "RESIGN"
         THEN send_to_client(M1,
                  Msg("gameover", "resignation", Winner(M1, M1.cl[c].game)), c)
         ELSE M1)

\* the opponent is told as well when the client plays a human
notify_opponent(M, c, opponent, status) ==
    IF ~Running(M) THEN M
    ELSE IF is_game_over(status)
    THEN IF M.cl[c].human /\ get_opponent(M, c) # NoClient
         THEN send_gameover(M, opponent, status)
         ELSE M
    ELSE IF M.cl[c].human
    THEN send_to_client(M, Msg("check", "", ""), opponent)
    ELSE M

notify_client(M, c, status) ==
    IF ~Running(M) THEN M
    ELSE IF ~M.cl[c].hasPlayed THEN M
    ELSE Then(Touch(M, M.cl[c].game), LAMBDA M1 :
         IF ~Running(M1) THEN M1
         ELSE IF ~M1.games[M1.cl[c].game].started THEN M1
         ELSE IF is_game_over(status)
         THEN notify_opponent(send_gameover(M1, c, status), c,
                  get_opponent(M1, c), status)
         ELSE IF status = "CHECK"
         THEN notify_opponent(send_to_client(M1, Msg("check", "", ""), c), c,
                  get_opponent(M1, c), status)
         ELSE M1)

\* the part of clean_up_client that takes the leaving client off the
\* registry of connected clients
clean_up_connected(M, leaving) ==
    IF ~Running(M) THEN M
    ELSE sem_post_list(
             [WroteList(sem_wait_list(M, "connected"), "connected")
                 EXCEPT !.connected = remove_from_list(@, leaving)],
             "connected")

\* the part of clean_up_client that looks for the leaving client on the
\* wait list
clean_up_wait_list(M, leaving) ==
    IF ~Running(M) THEN M
    ELSE IF ~M.cl[leaving].human THEN M
    ELSE Then(Touch(sem_wait_list(M, "waitList"), M.cl[leaving].game),
              LAMBDA M1 :
         IF ~Running(M1) THEN M1
         ELSE IF get_opponent(M1, leaving) = NoClient
         THEN sem_post_list(
                  [WroteList(M1, "waitList")
                      EXCEPT !.waitList = remove_from_list(@, leaving)],
                  "waitList")
         ELSE sem_post_list(M1, "waitList"))

\* the part of clean_up_client that frees the GameState or leaves it to the
\* opponent
clean_up_game(M, leaving) ==
    IF ~Running(M) THEN M
    ELSE IF ~M.cl[leaving].hasPlayed THEN M
    ELSE Then(Touch(M, M.cl[leaving].game), LAMBDA M1 :
         IF ~Running(M1) THEN M1
         ELSE IF ~M1.cl[leaving].human \/ get_opponent(M1, leaving) = NoClient
         THEN free_game_state(M1, M1.cl[leaving].game)
         ELSE IF M1.cl[leaving].white
         THEN [Wrote(M1, M1.cl[leaving].game)
                  EXCEPT !.games[M1.cl[leaving].game].whiteClient = NoClient]
         ELSE [Wrote(M1, M1.cl[leaving].game)
                  EXCEPT !.games[M1.cl[leaving].game].blackClient = NoClient])

\* pthread_exit: the worker is gone
thread_exit(M, c) ==
    IF ~Running(M) THEN M ELSE [M EXCEPT !.cl[c].phase = "gone"]

clean_up_client(M, leaving) ==
    thread_exit(
        clean_up_game(
            clean_up_wait_list(
                clean_up_connected(
                    notify_client(M, leaving, "RESIGN"),
                    leaving),
                leaving),
            leaving),
        leaving)

\* -------------------------------------------------------------- matchmaking

clients_are_compatible(M, waiting, looking) ==
    sem_post_game(
    Then([sem_wait_game(Touch(M, M.cl[waiting].game), M.cl[waiting].game)
             EXCEPT !.ret = FALSE], LAMBDA M0 :
    IF ~Running(M0) THEN M0 ELSE
    Then(IF M0.cl[waiting].either /\ M0.cl[looking].either
         THEN [M0 EXCEPT !.cl[waiting].white = TRUE,
                         !.cl[looking].white = FALSE,
                         !.games[M.cl[waiting].game].blackClient = looking,
                         !.ret = TRUE]
         ELSE M0, LAMBDA M1 :
    Then(IF M1.cl[waiting].either /\ ~M1.cl[looking].white
         THEN [M1 EXCEPT !.games[M.cl[waiting].game].blackClient = looking,
                         !.cl[waiting].white = TRUE,
                         !.ret = TRUE]
         ELSE M1, LAMBDA M2 :
    Then(IF M2.cl[waiting].either /\ M2.cl[looking].white
         THEN [M2 EXCEPT !.games[M.cl[waiting].game].whiteClient = looking,
                         !.games[M.cl[waiting].game].blackClient = waiting,
                         !.ret = TRUE]
         ELSE M2, LAMBDA M3 :
    Then(IF M3.cl[looking].either /\ ~M3.cl[waiting].white
         THEN [M3 EXCEPT !.cl[looking].white = TRUE,
                         !.games[M.cl[waiting].game].blackClient = waiting,
                         !.games[M.cl[waiting].game].whiteClient = looking,
                         !.ret = TRUE]
         ELSE M3, LAMBDA M4 :
    Then(IF M4.cl[looking].either /\ M4.cl[waiting].white
         THEN [M4 EXCEPT !.cl[looking].white = FALSE,
                         !.games[M.cl[waiting].game].whiteClient = waiting,
                         !.games[M.cl[waiting].game].blackClient = looking,
                         !.ret = TRUE]
         ELSE M4, LAMBDA M5 :
    IF M5.cl[looking].white = ~M5.cl[waiting].white
    THEN IF M5.cl[waiting].white
         THEN [M5 EXCEPT !.games[M.cl[waiting].game].whiteClient = waiting,
                         !.games[M.cl[waiting].game].blackClient = looking,
                         !.ret = TRUE]
         ELSE [M5 EXCEPT !.games[M.cl[waiting].game].blackClient = waiting,
                         !.games[M.cl[waiting].game].whiteClient = looking,
                         !.ret = TRUE]
    ELSE M5)))))))

\* the test in find_opponent that lets a waiting client be tried
colours_may_match(M, waiting, looking) ==
    \/ M.cl[waiting].white = ~M.cl[looking].white
    \/ M.cl[waiting].either
    \/ M.cl[looking].either

\* looking->game = waiting->game; waiting->game->started = true;
\* remove_from_list(waitList, waiting)
join_game(M, waiting, looking) ==
    IF ~Running(M) THEN M
    ELSE Then(Touch([M EXCEPT !.cl[looking].game = M.cl[waiting].game],
                    M.cl[waiting].game), LAMBDA M1 :
         IF ~Running(M1) THEN M1
         ELSE [WroteList(Wrote(M1, M.cl[waiting].game), "waitList")
                  EXCEPT !.games[M.cl[waiting].game].started = TRUE,
                         !.waitList = remove_from_list(@, waiting)])

\* find_opponent returns true
found(M) == IF ~Running(M) THEN M ELSE [M EXCEPT !.ret = TRUE]

\* the body of find_opponent's loop once clients_are_compatible said yes
pair_up(M, waiting, looking) ==
    found(
        sem_post_list(
            send_started(
                send_started(
                    join_game(free_game_state(M, M.cl[looking].game),
                              waiting, looking),
                    waiting),
                looking),
            "waitList"))

\* one pass of find_opponent's loop over a waiting client whose colours may
\* match: M.ret tells whether the two were paired
try_waiting(M, waiting, looking) ==
    Then(clients_are_compatible(sem_wait_list(M, "waitList"), waiting,
                                looking), LAMBDA M1 :
    IF ~Running(M1) THEN M1
    ELSE IF ~M1.ret THEN [M1 EXCEPT !.halt = "stuck"]
    ELSE pair_up(M1, waiting, looking))

\* find_opponent's loop from index i, run without interruption
RECURSIVE find_opponent_from(_, _, _)
find_opponent_from(M, looking, i) ==
    IF ~Running(M) THEN M
    ELSE IF i > Len(M.waitList) THEN [M EXCEPT !.ret = FALSE]
    ELSE IF colours_may_match(M, M.waitList[i], looking)
    THEN try_waiting(M, M.waitList[i], looking)
    ELSE find_opponent_from(M, looking, i + 1)

find_opponent(M, looking) == find_opponent_from(M, looking, 1)

add_to_waitlist(M, add) ==
    IF ~Running(M) THEN M
    ELSE sem_post_list(
             [WroteList(sem_wait_list(M, "waitList"), "waitList")
                 EXCEPT !.waitList = Append(@, add)],
             "waitList")

send_started_if_computer(M, c) ==
    IF M.cl[c].human THEN M ELSE send_started(M, c)

\* a GameState is in use while a Client struct points at it
InUse(M, g) == \E c \in Clients : M.cl[c].game = g

\* malloc: the first address that holds no GameState in use
NewGame(M) ==
    CHOOSE g \in GameIds : ~InUse(M, g) /\ \A h \in 1..(g - 1) : InUse(M, h)

\* the GameState init_new_game builds for client c
FreshGame(M, c) ==
    [alive |-> TRUE,
     whiteClient |-> IF M.cl[c].white \/ M.cl[c].either THEN c ELSE NoClient,
     blackClient |-> IF M.cl[c].white \/ M.cl[c].either THEN NoClient ELSE c,
     started |-> ~M.cl[c].human,
     fenString |-> initialFen]

\* allocates a GameState, leaves its address in M.newGame
init_new_game(M, c) ==
    IF ~Running(M) THEN M
    ELSE send_started_if_computer(
             [M EXCEPT !.newGame = NewGame(M),
                       !.games[NewGame(M)] = FreshGame(M, c)],
             c)

\* ------------------------------------------------------------- engine calls

\* whether every command the worker has sent to the engine in this step, the
\* one it sends now included, was sent while it held engine->lock
with_lock(M) ==
    IF M.heldEngine /\ M.asked # "unlocked" THEN "locked" ELSE "unlocked"

\* the worker sends the engine a command: does it hold a GameState's lock?
under_game_lock(M) ==
    IF M.heldGame # NoGame THEN Mark(M, "engine_under_game_lock") ELSE M

\* send_to_stockfish / flush_stockfish: a write to a dead engine fails and
\* the worker enters handle_stockfish_exit
send_to_stockfish(M) ==
    IF ~Running(M) THEN M
    ELSE IF engineAlive THEN [under_game_lock(M) EXCEPT !.asked = with_lock(M)]
    ELSE [under_game_lock(M) EXCEPT !.asked = with_lock(M), !.halt = "hse"]

\* the engine takes a position
position_set(M, fenString) ==
    IF ~Running(M) THEN M ELSE [M EXCEPT !.enginePos = fenString]

\* confirm_stockfish_response in set_position and send_move_to_stockfish:
\* when the engine dies before "readyok" it returns false, which the caller
\* drops; the flush of the position command that follows then fails
ready_confirmed(M) ==
    IF ~Running(M) THEN M
    ELSE IF M.eof = "readyok" THEN [M EXCEPT !.halt = "hse", !.died = TRUE]
    ELSE M

\* the engine dies before the reply the worker reads next is written
reply_lost(M) == Running(M) /\ M.eof = "reply"

\* the library's reader meets end of file and returns NULL, which the
\* worker dereferences
reply_missed(M) == [M EXCEPT !.halt = "segv", !.died = TRUE]

\* read_stockfish_d_output, read_stockfish_bestmove_output and
\* read_stockfish_go_perft_1_output, and the caller's first use of the result
reply_read(M) == IF reply_lost(M) THEN reply_missed(M) ELSE M

set_position(M, fenString) ==
    position_set(ready_confirmed(send_to_stockfish(M)), fenString)

\* the first token of the engine's bestmove line for position fen: a legal
\* move of the engine's choice
BestMoveOf(M, fen) ==
    IF fen \in TerminalFens THEN "(none)"
    ELSE IF EngineApply(fen, M.best) # fen THEN M.best
    ELSE "e2e4"

\* leaves the position set; the move is BestMoveOf(M, fenString)
get_best_move(M, fenString) ==
    reply_read(send_to_stockfish(set_position(M, fenString)))

get_possible_moves(M, fenString) ==
    reply_read(send_to_stockfish(set_position(M, fenString)))

is_clients_turn(M, c) ==
    \/ /\ next_player_from_fen_string(M.games[M.cl[c].game].fenString) = "w"
       /\ M.cl[c].white
    \/ /\ next_player_from_fen_string(M.games[M.cl[c].game].fenString) = "b"
       /\ ~M.cl[c].white

isalnum(ch) ==
    ch \in {"a", "b", "c", "d", "e", "f", "g", "h", "q", "r", "n",
            "0", "1", "2", "3", "4", "5", "6", "7", "8", "9"}

move_string_valid(move) ==
    LET chars == MoveChars(move)
        length == Len(chars)
    IN  IF length = 0 THEN FALSE
        ELSE IF length < MIN_MOVE_STRING_LENGTH \/ length > MAX_MOVE_STRING_LENGTH
        THEN FALSE
        ELSE \A i \in 1..length : isalnum(chars[i])

\* a comparison that takes every FEN the engine reports for a new position
fen_compared_always_new(M, g, new) ==
    IF ~Running(M) THEN M
    ELSE [M EXCEPT !.enginePos = new, !.ret = TRUE, !.games[g].fenString = new]

\* the comparison of the FEN the engine reports with the game's FEN
fen_compared(M, g, new) ==
    IF ~Running(M) THEN M
    ELSE IF M.games[g].fenString = new
    THEN [M EXCEPT !.enginePos = new, !.ret = FALSE]
    ELSE [Wrote(M, g) EXCEPT !.enginePos = new, !.ret = TRUE,
                             !.checkers = EngineCheckers(new),
                             !.games[g].fenString = new]

\* ucinewgame, isready and "position fen <fen> moves <move>"
move_sent(M, move, g) ==
    position_set(ready_confirmed(send_to_stockfish(M)),
                 EngineApply(M.games[g].fenString, move))

\* M.ret tells whether a StockfishGameState is returned (FALSE: NULL); the
\* FEN of get_stockfish_state is that of the position the engine holds
send_move_to_stockfish(M, move, g) ==
    Then(move_sent(M, move, g), LAMBDA M1 :
         fen_compared(reply_read(send_to_stockfish(M1)), g, M1.enginePos))

\* the MoveStatus of a position
StatusOf(checkers, lastMoves) ==
    IF checkers
    THEN (IF lastMoves = << >> THEN "CHECKMATE" ELSE "CHECK")
    ELSE (IF lastMoves = << >> THEN "STALEMATE" ELSE "OK")

\* the checkers field of the StockfishGameState read after the move is
\* dereferenced and set against the moves "go perft 1" has just listed
state_read(M) ==
    IF ~Running(M) THEN M
    ELSE IF ~M.ret THEN Segv(M)
    ELSE [M EXCEPT !.status = StatusOf(M.checkers, EngineMoves(M.enginePos))]

\* game is the StockfishGameState read after the move (NULL when M.ret is
\* FALSE); the result is left in M.status
analyse_position(M) == state_read(reply_read(send_to_stockfish(M)))

client_made_valid_move(status) == status \in {"OK", "CHECK"}

\* a client_move_valid that does not look at game->started
client_move_valid_unstarted(M, c, move) ==
    IF ~is_clients_turn(M, c) THEN "TURN"
    ELSE IF ~move_string_valid(move) THEN "COMMAND"
    ELSE "OK"

\* a client_move_valid whose test of game->started is inverted
client_move_valid_started(M, c, move) ==
    IF M.games[M.cl[c].game].started THEN "GAME"
    ELSE IF ~is_clients_turn(M, c) THEN "TURN"
    ELSE IF ~move_string_valid(move) THEN "COMMAND"
    ELSE "OK"

client_move_valid(M, c, move) ==
    IF ~M.games[M.cl[c].game].started THEN "GAME"
    ELSE IF ~is_clients_turn(M, c) THEN "TURN"
    ELSE IF ~move_string_valid(move) THEN "COMMAND"
    ELSE "OK"

\* the locks are taken
locks_held(M, g) ==
    IF ~Running(M) THEN M
    ELSE [(IF M.heldGame # NoGame THEN Mark(M, "order")
           ELSE IF M.heldWait \/ M.heldReg THEN Mark(M, "leaf")
           ELSE M)
             EXCEPT !.heldEngine = TRUE, !.heldGame = g]

\* sem_wait on the engine lock and on a GameState lock
Acquire(M, g) == locks_held(Touch(M, g), g)

Release_engine_kept(M) ==
    IF ~Running(M) THEN M
    ELSE [M EXCEPT !.heldGame = NoGame]

Release(M) ==
    IF ~Running(M) THEN M
    ELSE [M EXCEPT !.heldEngine = FALSE, !.heldGame = NoGame]

mark_ended_if_over(M, g) ==
    IF ~Running(M) THEN M
    ELSE IF is_game_over(M.status)
    THEN [Wrote(M, g) EXCEPT !.games[g].started = FALSE]
    ELSE M

\* a client_move that does not tell the opponent the move
send_moved_to_nobody(M, c, move) == M

send_moved_to_opponent(M, c, move) ==
    IF ~Running(M) THEN M
    ELSE IF M.cl[c].human
    THEN send_to_client(M, Msg("moved", move, ""), get_opponent(M, c))
    ELSE M

\* a MoveStatus is returned
returned(M, status) == IF ~Running(M) THEN M ELSE [M EXCEPT !.status = status]

\* notify_client with the status analyse_position left
notify_of_status(M, c) == notify_client(M, c, M.status)

\* client_move: "ok" to the client, "moved" to a human opponent
move_told(M, c, move) == send_moved_to_opponent(send_ok(M, c), c, move)

\* client_move from analyse_position on
move_judged(M, c, g) ==
    Release(mark_ended_if_over(notify_of_status(analyse_position(M), c), g))

\* a client_move that tells the opponent the move before it looks at the
\* engine's answer
move_answered_told_first(M, c, move, g) ==
    IF ~Running(M) THEN M
    ELSE IF ~M.ret
    THEN returned(Release(send_error(send_moved_to_opponent(M, c, move), c,
                                     "MOVE")), "MOVE")
    ELSE move_judged(move_told(M, c, move), c, g)

\* client_move once the engine has answered the move
move_answered(M, c, move, g) ==
    IF ~Running(M) THEN M
    ELSE IF ~M.ret THEN returned(Release(send_error(M, c, "MOVE")), "MOVE")
    ELSE move_judged(move_told(M, c, move), c, g)

\* client_move with the locks held
move_checked(M, c, move, g) ==
    IF ~Running(M) THEN M
    ELSE IF client_move_valid(M, c, move) # "OK"
    THEN returned(send_error(Release(M), c, client_move_valid(M, c, move)),
                  client_move_valid(M, c, move))
    ELSE move_answered(send_move_to_stockfish(M, move, g), c, move, g)

client_move(M, c, move) ==
    move_checked(Acquire(M, M.cl[c].game), c, move, M.cl[c].game)

\* computer_move once the engine has named its move
best_played(M, opponent, best, g) ==
    Release(
        mark_ended_if_over(
            notify_of_status(
                analyse_position(
                    send_to_client(send_move_to_stockfish(M, best, g),
                                   Msg("moved", best, ""), opponent)),
                opponent),
            g))

\* computer_move with the locks held
best_asked(M, opponent, g) ==
    IF ~Running(M) THEN M
    ELSE best_played(get_best_move(M, M.games[g].fenString), opponent,
                     BestMoveOf(M, M.games[g].fenString), g)

computer_move(M, opponent) ==
    best_asked(Acquire(M, M.cl[opponent].game), opponent, M.cl[opponent].game)

\* looking->game = init_new_game(looking)
new_game_set(M, c) ==
    IF ~Running(M) THEN M ELSE [M EXCEPT !.cl[c].game = M.newGame]

\* match_up_client after find_opponent
opponent_sought(M, looking) ==
    IF ~Running(M) THEN M
    ELSE IF ~M.ret THEN add_to_waitlist(M, looking)
    ELSE M

\* match_up_client after the new GameState of a game against the computer
computer_opens(M, looking) ==
    IF ~Running(M) THEN M
    ELSE IF ~M.cl[looking].white THEN computer_move(M, looking)
    ELSE M

match_up_client(M, looking) ==
    IF ~Running(M) THEN M
    ELSE IF M.cl[looking].human
    THEN opponent_sought(
             find_opponent(new_game_set(init_new_game(M, looking), looking),
                           looking),
             looking)
    ELSE computer_opens(
             new_game_set(
                 init_new_game(
                     IF M.cl[looking].hasPlayed
                     THEN free_game_state(M, M.cl[looking].game)
                     ELSE M,
                     looking),
                 looking),
             looking)

\* ---------------------------------------------------------- other commands

\* the moves of a hint reply as they are written, separated by spaces
RECURSIVE JoinMoves(_)
JoinMoves(moves) ==
    IF moves = << >> THEN ""
    ELSE IF Len(moves) = 1 THEN moves[1]
    ELSE moves[1] \o " " \o JoinMoves(Tail(moves))

\* send_hints once the engine has answered the go command for the position
\* it holds
hint_written(M, c, option) ==
    IF ~Running(M) THEN M
    ELSE IF option = "best"
    THEN send_to_client(M, Msg("moves", BestMoveOf(M, M.enginePos), ""), c)
    ELSE send_to_client(M, Msg("moves", JoinMoves(EngineMoves(M.enginePos)), ""), c)

\* send_hints with the locks held
hints_checked(M, c, option, g) ==
    IF ~Running(M) THEN M
    ELSE IF ~M.games[g].started THEN send_error(Release(M), c, "GAME")
    ELSE IF ~is_clients_turn(M, c) THEN send_error(Release(M), c, "TURN")
    ELSE IF option \in {"best", "all"}
    THEN Release(hint_written(IF option = "best"
                              THEN get_best_move(M, M.games[g].fenString)
                              ELSE get_possible_moves(M, M.games[g].fenString),
                              c, option))
    ELSE Release(send_error(M, c, "COMMAND"))

send_hints(M, c, option) ==
    hints_checked(Acquire(M, M.cl[c].game), c, option, M.cl[c].game)

\* the three lines of a board reply
board_lines(M, c) ==
    IF ~Running(M) THEN M
    ELSE send_to_client(
             send_to_client(
                 send_to_client(M, Msg("startboard", "", ""), c),
                 Msg("board", M.enginePos, ""), c),
             Msg("endboard", "", ""), c)

\* get_stockfish_state: "d" and the board the engine holds
send_board(M, c) ==
    IF ~Running(M) THEN M
    ELSE IF ~M.cl[c].hasPlayed THEN send_error(M, c, "GAME")
    ELSE Then(send_to_stockfish(M), LAMBDA M1 :
         IF reply_lost(M1)
         THEN reply_missed(send_to_client(M1, Msg("startboard", "", ""), c))
         ELSE board_lines(M1, c))

\* the board branch of handle_client_input with client->game read
board_checked(M, c, g) ==
    IF ~Running(M) THEN M
    ELSE IF M.games[g].started
    THEN send_board(set_position(M, M.games[g].fenString), c)
    ELSE send_board(M, c)

board_command(M, c) == board_checked(Touch(M, M.cl[c].game), c, M.cl[c].game)

\* game->started = false
game_ended(M, g) ==
    IF ~Running(M) THEN M
    ELSE [Wrote(M, g) EXCEPT !.games[g].started = FALSE]

\* handle_resign with client->game read
resign_checked(M, c, g) ==
    IF ~Running(M) THEN M
    ELSE IF ~M.games[g].started THEN sem_post_game(send_error(M, c, "GAME"))
    ELSE sem_post_game(game_ended(notify_client(M, c, "RESIGN"), g))

handle_resign(M, c) ==
    resign_checked(sem_wait_game(Touch(M, M.cl[c].game), M.cl[c].game), c,
                   M.cl[c].game)

\* the move branch of handle_client_input after client_move
client_moved(M, c) ==
    IF ~Running(M) THEN M
    ELSE IF is_game_over(M.status) THEN M
    ELSE IF ~M.cl[c].human /\ client_made_valid_move(M.status)
    THEN computer_move(M, c)
    ELSE M

move_command(M, c, move) == client_moved(client_move(M, c, move), c)

\* the colour named by a start line is remembered beside the struct
note_request(M, c, line) ==
    IF line.op = "start" THEN [M EXCEPT !.cl[c].req = line.a2] ELSE M

handle_client_input(M, c, line) ==
    IF line.op = "eof" THEN clean_up_client(M, c)
    ELSE IF line.op = "board" THEN board_command(M, c)
    ELSE IF line.op = "move" THEN move_command(M, c, line.a1)
    ELSE IF line.op = "hint" THEN send_hints(M, c, line.a1)
    ELSE IF line.op = "resign" THEN handle_resign(M, c)
    ELSE IF line.op = "start" THEN match_up_client(note_request(M, c, line), c)
    ELSE send_error(M, c, "COMMAND")

\* get_client_info after the flags are cleared
info_read(M, store, line) ==
    IF line.op = "eof" THEN clean_up_client(M, store)
    ELSE IF line.op # "start"
    THEN IF line.op \in {"board", "move", "hint", "resign"}
         THEN send_error(M, store, "GAME")
         ELSE send_error(M, store, "COMMAND")
    ELSE [M EXCEPT
             !.cl[store].human = (line.a1 = "human"),
             !.cl[store].white =
                 \/ line.a2 = "white"
                 \/ line.a2 = "either" /\ line.a1 # "human",
             !.cl[store].either = (line.a2 = "either" /\ line.a1 = "human"),
             !.ret = TRUE]

\* M.ret tells whether a start line was read
get_client_info(M, store, line) ==
    info_read([M EXCEPT !.cl[store].human = FALSE,
                        !.cl[store].white = FALSE,
                        !.cl[store].either = FALSE,
                        !.cl[store].hasPlayed = FALSE,
                        !.ret = FALSE],
              store, line)

\* handle_connection after get_client_info
info_got(M, c) ==
    IF ~Running(M) \/ ~M.ret THEN M
    ELSE match_up_client([M EXCEPT !.cl[c].phase = "run"], c)

\* handle_connection up to the first read of handle_client_input
first_line(M, c, line) ==
    info_got(get_client_info(note_request(M, c, line), c, line), c)

\* ------------------------------------------------------- the state machine

\* the state of spec section 4.4 a session is in
SessionState(c) ==
    IF cl[c].phase = "info" THEN "PREGAME"
    ELSE IF cl[c].phase # "run" THEN "NONE"
    ELSE IF games[cl[c].game].started THEN "PLAYING"
    ELSE IF \E i \in 1..Len(waitList) : waitList[i] = c THEN "WAITING"
    ELSE "PREGAME"

\* the GameState client c points at
GameOf(c) == games[cl[c].game]

\* it is c's move in the game c points at
IsTurn(c) ==
    /\ cl[c].phase = "run"
    /\ (next_player_from_fen_string(games[cl[c].game].fenString) = "w")
           = cl[c].white

Last(who, op) == [who |-> who, op |-> op]

NoLast == Last(NoClient, "")

Pending(who, line) == [who |-> who, line |-> line]

NoPending == Pending(NoClient, NoCmd)

\* no line is being handled and the replies of the last step are gone
Quiet == pending = NoPending /\ last = NoLast

InitWith(clients) ==
    /\ cl = [c \in Clients |-> NewClient]
    /\ games = [g \in GameIds |-> NoGameState]
    /\ pool = clients
    /\ allocs = 0
    /\ waitList = << >>
    /\ connected = << >>
    /\ engineAlive = TRUE
    /\ enginePos = initialFen
    /\ engineLock = NoClient
    /\ gameLocks = [g \in GameIds |-> NoClient]
    /\ pc = [c \in Clients |-> "read"]
    /\ scan = [c \in Clients |-> 0]
    /\ server = "running"
    /\ exitCode = 0
    /\ pending = NoPending
    /\ sent = NoSent
    /\ errs = [c \in Clients |-> 0]
    /\ atDeath = {}
    /\ ub = FALSE
    /\ doing = [c \in Clients |-> NoCmd]
    /\ asked = "none"
    /\ marks = {}
    /\ overs = [c \in Clients |-> 0]
    /\ last = NoLast

Init == InitWith({"a", "b"})

\* Client structs the server can still reach: those of running workers, those
\* on the wait list and those in a slot of a GameState such a client points at
Reachable(M) ==
    LET direct == {c \in Clients : M.cl[c].phase \in {"info", "run"}}
                      \cup {M.waitList[i] : i \in 1..Len(M.waitList)}
        pointed == {M.cl[c].game : c \in direct} \ {NoGame}
    IN  direct
          \cup ({M.games[g].whiteClient : g \in pointed} \ {NoClient})
          \cup ({M.games[g].blackClient : g \in pointed} \ {NoClient})

\* Memory that no pointer of the server leads to any more cannot be read or
\* written again: the struct of a worker that is gone and the GameStates no
\* reachable struct points at are put back to their blank value, so that states
\* that differ only there are one state.  (A GameState dropped without being
\* freed is a leak.)
SweptClients(M, reach) ==
    [c \in Clients |->
        IF M.cl[c].phase = "gone" /\ c \notin reach
        THEN [NewClient EXCEPT !.phase = "gone"]
        ELSE M.cl[c]]

SweptGames(M, reach) ==
    [g \in GameIds |->
        IF \E c \in reach : M.cl[c].game = g
        THEN M.games[g]
        ELSE NoGameState]

\* the step ended with the wait list's or the registry's lock still held
KeptMarks(M) ==
    IF M.heldWait \/ M.heldReg THEN {"list_lock_kept"} ELSE {}

\* the sessions (workers that have not exited) whose Client struct points
\* at GameState g
Referrers(clients, g) ==
    {c \in Clients : clients[c].phase \in {"info", "run"} /\ clients[c].game = g}

\* the step ended with a GameState that was not destroyed and that no
\* session points at
OrphanMarks(M) ==
    IF \E g \in GameIds : M.games[g].alive /\ Referrers(M.cl, g) = {}
    THEN {"orphan"} ELSE {}

\* the gameover lines written to a client since its last "started" line, of
\* which there were n before the lines were written
RECURSIVE OversAfter(_, _)
OversAfter(n, lines) ==
    IF lines = << >> THEN n
    ELSE OversAfter(IF Head(lines)[1] = "started" THEN 0
                    ELSE IF Head(lines)[1] = "gameover" /\ n < 2 THEN n + 1
                    ELSE n,
                    Tail(lines))

\* a step of worker c that handled op ended in memory M; the worker goes on
\* at `at' with loop index idx
Store(c, op, M, at, idx) ==
    /\ cl' = SweptClients(M, Reachable(M))
    /\ games' = SweptGames(M, Reachable(M))
    /\ allocs' = IF M.newGame # NoGame THEN allocs + 1 ELSE allocs
    /\ waitList' = M.waitList
    /\ connected' = M.connected
    /\ enginePos' = M.enginePos
    /\ sent' = M.sent
    /\ ub' = M.ub
    /\ asked' = M.asked
    /\ marks' = M.marks \cup KeptMarks(M) \cup OrphanMarks(M)
    /\ overs' = [d \in Clients |-> OversAfter(overs[d], M.sent[d])]
    /\ engineAlive' = (engineAlive /\ ~M.died)
    /\ atDeath' = IF M.died THEN {M.connected[i] : i \in 1..Len(M.connected)}
                  ELSE atDeath
    /\ server' = IF M.halt = "segv" THEN "crashed" ELSE server
    /\ pc' = [pc EXCEPT ![c] = IF M.halt = "hse" THEN "hse_notify"
                               ELSE IF M.halt = "stuck" THEN "stuck"
                               ELSE at]
    /\ scan' = [scan EXCEPT ![c] = idx]
    /\ engineLock' = IF M.heldEngine THEN c
                     ELSE IF engineLock = c THEN NoClient
                     ELSE engineLock
    /\ gameLocks' = [g \in GameIds |->
                        IF M.heldGame = g THEN c
                        ELSE IF gameLocks[g] = c THEN NoClient
                        ELSE gameLocks[g]]
    /\ doing' = [doing EXCEPT ![c] = IF at = "read" THEN NoCmd
                                     ELSE IF pending.who = c THEN pending.line
                                     ELSE @]
    /\ pending' = NoPending
    /\ last' = Last(c, op)
    /\ UNCHANGED <<pool, exitCode, errs>>

\* a handler run by worker c ended in memory M
Commit(c, line, M) == Store(c, line.op, M, "read", 0)

\* client_loop: accept, a new Client struct in the registry, a new worker
Connect(c) ==
    /\ server = "running"
    /\ Quiet
    /\ c \in pool
    /\ cl[c].phase = "new"
    /\ \E i \in 1..Len(ConnectOrder) :
          /\ ConnectOrder[i] = c
          /\ \A j \in 1..(i - 1) : cl[ConnectOrder[j]].phase # "new"
    /\ cl' = [cl EXCEPT ![c].phase = "info"]
    /\ connected' = Append(connected, c)
    /\ UNCHANGED <<games, pool, allocs, waitList, engineAlive, enginePos,
                   engineLock, gameLocks, pc, scan, server, exitCode,
                   pending, sent, errs, ub, last,
                   atDeath, doing, asked, marks, overs>>

\* the locks a handler waits for are free
LocksFree(c, line) ==
    /\ line.op \in {"move", "hint", "start"} => engineLock = NoClient
    /\ cl[c].phase = "run" /\ line.op \in {"move", "hint", "resign"}
          => gameLocks[cl[c].game] = NoClient

\* the run may still allocate a GameState for a start line
RoomFor(line, max) == line.op = "start" => allocs < max

\* read_line returns a line of client c (or end of file) to its worker
ReadLine(c, line) ==
    /\ server = "running"
    /\ Quiet
    /\ cl[c].phase \in {"info", "run"}
    /\ pc[c] = "read"
    /\ LocksFree(c, line)
    /\ pending' = Pending(c, line)
    /\ UNCHANGED <<cl, games, pool, allocs, waitList, connected, engineAlive,
                   enginePos, engineLock, gameLocks, pc, scan, server,
                   exitCode, sent, errs, ub, last,
                   atDeath, doing, asked, marks, overs>>

\* the handler asks the engine for its best move
AsksBest(c, line) ==
    \/ line.op = "hint" /\ line.a1 = "best"
    \/ line.op = "start" /\ cl[c].phase = "info" /\ line.a1 # "human"
    \/ line.op \in {"start", "move"} /\ cl[c].phase = "run" /\ ~cl[c].human

\* the moves the engine may name as best
BestChoices(c, line) == IF AsksBest(c, line) THEN LegalMoves ELSE {"e2e4"}

\* the memories a handler may end in: where it touched a freed GameState the
\* run may as well have crashed there
Outcomes(went_on, crashed) ==
    IF went_on.touched THEN {went_on, crashed} ELSE {went_on}

\* the worker handles a line read before its client's first start line
FirstLine(c) ==
    /\ pending.who = c
    /\ cl[c].phase = "info"
    /\ \E best \in BestChoices(c, pending.line) :
          \E M \in Outcomes(first_line(Memory(best, FALSE), c, pending.line),
                            first_line(Memory(best, TRUE), c, pending.line)) :
             Commit(c, pending.line, M)

\* the worker handles a line in handle_client_input
Input(c) ==
    /\ pending.who = c
    /\ cl[c].phase = "run"
    /\ \E best \in BestChoices(c, pending.line) :
          \E M \in Outcomes(
                     handle_client_input(Memory(best, FALSE), c, pending.line),
                     handle_client_input(Memory(best, TRUE), c, pending.line)) :
             Commit(c, pending.line, M)

\* the lines written by the last step have left the server
Deliver ==
    /\ pending = NoPending
    /\ last # NoLast
    /\ sent' = NoSent
    /\ asked' = "none"
    /\ marks' = {}
    /\ overs' = overs
    /\ last' = NoLast
    /\ UNCHANGED <<cl, games, pool, allocs, waitList, connected, engineAlive,
                   enginePos, engineLock, gameLocks, pc, scan, server,
                   exitCode, pending, errs, ub,
                   atDeath, doing>>

Next ==
    \/ \E c \in Clients : Connect(c)
    \/ \E c \in Clients, line \in Lines \cup {Eof} :
          RoomFor(line, MaxGames) /\ ReadLine(c, line)
    \/ \E c \in Clients : FirstLine(c)
    \/ \E c \in Clients : Input(c)
    \/ Deliver

Spec == Init /\ [][Next]_vars

\* ------------------------------------------------- the death of the engine

\* the engine process dies
EngineDies ==
    /\ server = "running"
    /\ Quiet
    /\ engineAlive
    /\ engineAlive' = FALSE
    /\ atDeath' = {connected[i] : i \in 1..Len(connected)}
    /\ UNCHANGED <<cl, games, pool, allocs, waitList, connected, enginePos,
                   engineLock, gameLocks, pc, scan, server, exitCode,
                   pending, sent, errs, ub, doing, asked, marks,
                   overs, last>>

\* "error engine" to every client of the list, under the list's lock
RECURSIVE notify_all(_, _)
notify_all(list, out) ==
    IF list = << >> THEN out
    ELSE notify_all(Tail(list),
             [out EXCEPT ![Head(list)] = Append(@, ErrorMsg("engine"))])

\* handle_stockfish_exit up to sem_post
HseNotify(c) ==
    /\ server = "running"
    /\ Quiet
    /\ pc[c] = "hse_notify"
    /\ sent' = notify_all(connected, NoSent)
    /\ errs' = [x \in Clients |-> errs[x] + Len(sent'[x])]
    /\ pc' = [pc EXCEPT ![c] = "hse_exit"]
    /\ last' = Last(c, "notify")
    /\ UNCHANGED <<cl, games, pool, allocs, waitList, connected, engineAlive,
                   enginePos, engineLock, gameLocks, scan, server, exitCode,
                   pending, ub,
                   atDeath, doing, asked, marks, overs>>

\* handle_stockfish_exit: exit(ERROR_STOCKFISH_UNEXPECTED_EXIT)
HseExit(c) ==
    /\ server = "running"
    /\ Quiet
    /\ pc[c] = "hse_exit"
    /\ server' = "exited"
    /\ exitCode' = ERROR_STOCKFISH_UNEXPECTED_EXIT
    /\ last' = Last(c, "exit")
    /\ UNCHANGED <<cl, games, pool, allocs, waitList, connected, engineAlive,
                   enginePos, engineLock, gameLocks, pc, scan, pending, sent,
                   errs, ub,
                   atDeath, doing, asked, marks, overs>>

\* the lines of the runs in which the engine dies
EngineLines ==
    {Cmd("start", "computer", "white"), Cmd("board", "", ""),
     Cmd("move", "e2e4", ""), Eof}

NextEngine ==
    \/ \E c \in Clients : Connect(c)
    \/ \E c \in Clients, line \in EngineLines :
          RoomFor(line, MaxGames) /\ ReadLine(c, line)
    \/ \E c \in Clients : FirstLine(c)
    \/ \E c \in Clients : Input(c)
    \/ Deliver
    \/ EngineDies
    \/ \E c \in Clients : HseNotify(c)
    \/ \E c \in Clients : HseExit(c)

SpecEngine == Init /\ [][NextEngine]_vars

\* the places of a handler's conversation at which the engine may die:
\* before the "readyok" of set_position, or before the reply of the command
\* whose answer the library reads
EofPlaces == {"readyok", "reply"}

\* the worker handles a line and the engine dies while it waits for a reply
InputEof(c) ==
    /\ pending.who = c
    /\ cl[c].phase = "run"
    /\ engineAlive
    /\ \E best \in BestChoices(c, pending.line), where \in EofPlaces :
          \E M \in {handle_client_input(
                        [Memory(best, FALSE) EXCEPT !.eof = where], c,
                        pending.line)} :
             M.died /\ Commit(c, pending.line, M)

EofLines == EngineLines \cup {Cmd("hint", "all", "")}

NextEof ==
    \/ \E c \in Clients : Connect(c)
    \/ \E c \in Clients, line \in EofLines :
          RoomFor(line, MaxGames) /\ ReadLine(c, line)
    \/ \E c \in Clients : FirstLine(c)
    \/ \E c \in Clients : Input(c)
    \/ \E c \in Clients : InputEof(c)
    \/ Deliver
    \/ EngineDies
    \/ \E c \in Clients : HseNotify(c)
    \/ \E c \in Clients : HseExit(c)

SpecEof == Init /\ [][NextEof]_vars

\* ------------------------------------ client_loop, one statement at a time

\* client_loop up to sem_post(connected->lock): the new Client struct is put
\* at index threadCount of the registry, under the registry's lock; scan[c]
\* keeps threadCount until the worker is created.  A client in phase
\* "accepted" is in the registry and has no worker yet
Accept(c) ==
    /\ server = "running"
    /\ Quiet
    /\ c \in pool
    /\ cl[c].phase = "new"
    /\ \A d \in Clients : cl[d].phase # "accepted"
    /\ \E i \in 1..Len(ConnectOrder) :
          /\ ConnectOrder[i] = c
          /\ \A j \in 1..(i - 1) : cl[ConnectOrder[j]].phase # "new"
    /\ cl' = [cl EXCEPT ![c].phase = "accepted"]
    /\ scan' = [scan EXCEPT ![c] = Len(connected)]
    /\ connected' = Append(connected, c)
    /\ UNCHANGED <<games, pool, allocs, waitList, engineAlive, enginePos,
                   engineLock, gameLocks, pc, server, exitCode,
                   pending, sent, errs, ub, last,
                   atDeath, doing, asked, marks, overs>>

\* what pthread_create is given when connected->clients[threadCount] is read
\* after a worker took an entry off the registry: the index is past the end
\* of the array remove_from_list built.  The value read is the new Client
\* ("info"), or something else that the worker survives ("lost", with ub)
\* or does not survive (the server crashes)
PastTheEnd == {"info", "lost", "crashed"}

\* client_loop after sem_post(connected->lock): pthread_create is given
\* connected->clients[threadCount], read without the registry's lock.  A
\* client in phase "lost" has a worker that was not handed its Client struct
Create(c) ==
    /\ server = "running"
    /\ Quiet
    /\ cl[c].phase = "accepted"
    /\ \E read \in (IF scan[c] < Len(connected) THEN {"info"} ELSE PastTheEnd) :
          /\ cl' = [cl EXCEPT ![c].phase = IF read = "info" THEN "info" ELSE "lost"]
          /\ server' = IF read = "crashed" THEN "crashed" ELSE server
          /\ ub' = (ub \/ read # "info")
    /\ scan' = [scan EXCEPT ![c] = 0]
    /\ UNCHANGED <<games, pool, allocs, waitList, connected, engineAlive,
                   enginePos, engineLock, gameLocks, pc, exitCode,
                   pending, sent, errs, last,
                   atDeath, doing, asked, marks, overs>>

AcceptLines == {Cmd("start", "human", "white"), Cmd("start", "computer", "white"),
                Cmd("resign", "", ""), Eof}

NextAccept ==
    \/ \E c \in Clients : Accept(c)
    \/ \E c \in Clients : Create(c)
    \/ \E c \in Clients, line \in AcceptLines :
          RoomFor(line, MaxGames) /\ ReadLine(c, line)
    \/ \E c \in Clients : FirstLine(c)
    \/ \E c \in Clients : Input(c)
    \/ Deliver

SpecAccept == InitWith(Clients) /\ [][NextAccept]_vars

\* ---------------------------------------------- restarts, with few lines

RestartLines ==
    {Cmd("start", "human", "white"), Cmd("start", "human", "black"),
     Cmd("move", "e2e4", ""), Cmd("resign", "", "")}

NextRestart ==
    \/ \E c \in Clients : Connect(c)
    \/ \E c \in Clients, line \in RestartLines :
          RoomFor(line, MaxGamesLong) /\ ReadLine(c, line)
    \/ \E c \in Clients : FirstLine(c)
    \/ \E c \in Clients : Input(c)
    \/ Deliver

SpecRestart == Init /\ [][NextRestart]_vars

\* ------------------------------------ matchmaking, one loop pass at a time

MatchLines ==
    {Cmd("start", "human", "white"), Cmd("start", "human", "black"), Eof}

\* handle_connection and match_up_client up to the call of find_opponent
match_begin(M, c, line) ==
    new_game_set(
        init_new_game(
            IF M.cl[c].phase = "info"
            THEN [get_client_info(note_request(M, c, line), c, line)
                     EXCEPT !.cl[c].phase = "run"]
            ELSE note_request(M, c, line),
            c),
        c)

\* the worker of a client that asks for a human opponent gets as far as the
\* loop of find_opponent
MatchStart(c) ==
    /\ pending.who = c
    /\ pending.line.op = "start"
    /\ IF cl[c].phase = "info" THEN pending.line.a1 = "human" ELSE cl[c].human
    /\ Store(c, "start", match_begin(Memory("e2e4", FALSE), c, pending.line),
             "scan", 1)

\* the loop test of find_opponent, made without the wait list's lock
MatchTest(c) ==
    /\ server = "running"
    /\ Quiet
    /\ pc[c] = "scan"
    /\ pc' = [pc EXCEPT ![c] = IF scan[c] > Len(waitList)
                               THEN "append" ELSE "body"]
    /\ UNCHANGED <<cl, games, pool, allocs, waitList, connected, engineAlive,
                   enginePos, engineLock, gameLocks, scan, server, exitCode,
                   pending, sent, errs, ub, last,
                   atDeath, doing, asked, marks, overs>>

\* the loop body of find_opponent, made under the wait list's lock, when the
\* two are paired
MatchPair(c) ==
    /\ server = "running"
    /\ Quiet
    /\ pc[c] = "body"
    /\ scan[c] <= Len(waitList)
    /\ colours_may_match(Memory("e2e4", FALSE), waitList[scan[c]], c)
    /\ \E M \in Outcomes(
                  try_waiting(Memory("e2e4", FALSE), waitList[scan[c]], c),
                  try_waiting(Memory("e2e4", TRUE), waitList[scan[c]], c)) :
          Store(c, "pair", M, "read", 0)

\* the loop body of find_opponent when the colours do not match
MatchSkip(c) ==
    /\ server = "running"
    /\ Quiet
    /\ pc[c] = "body"
    /\ scan[c] <= Len(waitList)
    /\ ~colours_may_match(Memory("e2e4", FALSE), waitList[scan[c]], c)
    /\ pc' = [pc EXCEPT ![c] = "scan"]
    /\ scan' = [scan EXCEPT ![c] = @ + 1]
    /\ UNCHANGED <<cl, games, pool, allocs, waitList, connected, engineAlive,
                   enginePos, engineLock, gameLocks, server, exitCode,
                   pending, sent, errs, ub, last,
                   atDeath, doing, asked, marks, overs>>

\* the loop body of find_opponent when the list has shrunk since the loop
\* test: waitList->clients[i] is read past the end of the array, and either
\* the worker crashes on what it reads or what it reads does not match
MatchPastEnd(c) ==
    /\ server = "running"
    /\ Quiet
    /\ pc[c] = "body"
    /\ scan[c] > Len(waitList)
    /\ ub' = TRUE
    /\ \E crash \in BOOLEAN :
          /\ server' = IF crash THEN "crashed" ELSE server
          /\ pc' = [pc EXCEPT ![c] = "scan"]
          /\ scan' = [scan EXCEPT ![c] = @ + 1]
    /\ UNCHANGED <<cl, games, pool, allocs, waitList, connected, engineAlive,
                   enginePos, engineLock, gameLocks, exitCode, pending, sent,
                   errs, last,
                   atDeath, doing, asked, marks, overs>>

\* add_to_waitlist after find_opponent returned false
MatchAppend(c) ==
    /\ server = "running"
    /\ Quiet
    /\ pc[c] = "append"
    /\ waitList' = Append(waitList, c)
    /\ pc' = [pc EXCEPT ![c] = "read"]
    /\ scan' = [scan EXCEPT ![c] = 0]
    /\ doing' = [doing EXCEPT ![c] = NoCmd]
    /\ last' = Last(c, "append")
    /\ UNCHANGED <<cl, games, pool, allocs, connected, engineAlive,
                   enginePos, engineLock, gameLocks, server, exitCode,
                   pending, sent, errs, ub,
                   atDeath, asked, marks, overs>>

InitMatch == InitWith({"a", "b", "c"})

NextMatch ==
    \/ \E c \in Clients : Connect(c)
    \/ \E c \in Clients, line \in MatchLines :
          /\ RoomFor(line, MaxGamesLong)
          /\ line.op = "eof" => cl[c].phase = "run"
          /\ ReadLine(c, line)
    \/ \E c \in Clients : pending.line.op = "eof" /\ Input(c)
    \/ \E c \in Clients : MatchStart(c)
    \/ \E c \in Clients : MatchTest(c)
    \/ \E c \in Clients : MatchPair(c)
    \/ \E c \in Clients : MatchSkip(c)
    \/ \E c \in Clients : MatchPastEnd(c)
    \/ \E c \in Clients : MatchAppend(c)
    \/ Deliver

SpecMatch == InitMatch /\ [][NextMatch]_vars

\* ------------------------- engine conversations, one command at a time

\* the memory of a worker that holds engine->lock and its GameState's lock
Held(c, best) ==
    [Memory(best, FALSE) EXCEPT !.heldEngine = TRUE, !.heldGame = cl[c].game]

\* the worker has read a move that client_move_valid lets through
MovePasses(c) ==
    /\ pending.who = c
    /\ pending.line.op = "move"
    /\ cl[c].phase = "run"
    /\ GameOf(c).alive
    /\ client_move_valid(Memory("e2e4", FALSE), c, pending.line.a1) = "OK"

\* client_move up to the position command of send_move_to_stockfish
MovePosition(c) ==
    /\ MovePasses(c)
    /\ \E M \in {move_sent(Acquire(Memory("e2e4", FALSE), cl[c].game),
                            pending.line.a1, cl[c].game)} :
          Store(c, "position", M, "move_d", 0)

\* get_stockfish_state in send_move_to_stockfish, and client_move up to the
\* call of analyse_position
MoveRead(c) ==
    /\ server = "running"
    /\ Quiet
    /\ pc[c] = "move_d"
    /\ \E M \in {fen_compared(send_to_stockfish(Held(c, "e2e4")), cl[c].game,
                               enginePos)} :
          IF Running(M) /\ M.ret
          THEN \E M1 \in {move_told(M, c, doing[c].a1)} :
                  Store(c, "ok", M1, "move_perft", 0)
          ELSE \E M1 \in {move_answered(M, c, doing[c].a1, cl[c].game)} :
                  Store(c, "move", M1, "read", 0)

\* the StockfishGameState of the move the worker is about to analyse
StateRead(c, best) ==
    [Held(c, best) EXCEPT !.ret = TRUE,
                          !.checkers = EngineCheckers(GameOf(c).fenString)]

\* client_move from analyse_position on, and the rest of the move branch of
\* handle_client_input
MoveAnalyse(c) ==
    /\ server = "running"
    /\ Quiet
    /\ pc[c] = "move_perft"
    /\ \E best \in LegalMoves :
          \E M \in {client_moved(move_judged(StateRead(c, best), c, cl[c].game),
                                  c)} :
             Store(c, "move", M, "read", 0)

\* the worker has read a hint that reaches the engine
HintPasses(c) ==
    /\ pending.who = c
    /\ pending.line.op = "hint"
    /\ pending.line.a1 \in {"best", "all"}
    /\ cl[c].phase = "run"
    /\ GameOf(c).alive
    /\ GameOf(c).started
    /\ IsTurn(c)

\* send_hints up to set_position in get_best_move or get_possible_moves
HintPosition(c) ==
    /\ HintPasses(c)
    /\ \E M \in {set_position(Acquire(Memory("e2e4", FALSE), cl[c].game),
                               GameOf(c).fenString)} :
          Store(c, "position", M, "hint_go", 0)

\* the go command of get_best_move or get_possible_moves, and the rest of
\* send_hints
HintGo(c) ==
    /\ server = "running"
    /\ Quiet
    /\ pc[c] = "hint_go"
    /\ \E best \in LegalMoves :
          \E M \in {Release(hint_written(send_to_stockfish(Held(c, best)), c,
                                         doing[c].a1))} :
             Store(c, "hint", M, "read", 0)

\* the lines of the runs in which engine conversations interleave
RaceLines ==
    {Cmd("start", "computer", "white"), Cmd("board", "", ""),
     Cmd("move", "e2e4", ""), Cmd("move", "h5f7", ""), Cmd("move", "a1a1", ""),
     Cmd("hint", "all", ""), Cmd("hint", "best", "")}

NextRace ==
    \/ \E c \in Clients : Connect(c)
    \/ \E c \in Clients, line \in RaceLines :
          RoomFor(line, MaxGames) /\ ReadLine(c, line)
    \/ \E c \in Clients : FirstLine(c)
    \/ \E c \in Clients : ~MovePasses(c) /\ ~HintPasses(c) /\ Input(c)
    \/ \E c \in Clients : MovePosition(c)
    \/ \E c \in Clients : MoveRead(c)
    \/ \E c \in Clients : MoveAnalyse(c)
    \/ \E c \in Clients : HintPosition(c)
    \/ \E c \in Clients : HintGo(c)
    \/ Deliver

SpecRace == Init /\ [][NextRace]_vars

\* ------------------------------------------ the locks, with fair workers

\* the lines of the runs in which workers wait for each other's locks
LockLines ==
    {Cmd("start", "computer", "white"), Cmd("start", "human", "white"),
     Cmd("start", "human", "black"), Cmd("move", "e2e4", ""),
     Cmd("hint", "best", ""), Cmd("resign", "", ""), Cmd("board", "", ""),
     Cmd("start", "human", "either"), Eof}

NextLocks ==
    \/ \E c \in Clients : Connect(c)
    \/ \E c \in Clients, line \in LockLines :
          RoomFor(line, MaxGames) /\ ReadLine(c, line)
    \/ \E c \in Clients : FirstLine(c)
    \/ \E c \in Clients : ~MovePasses(c) /\ ~HintPasses(c) /\ Input(c)
    \/ \E c \in Clients : MovePosition(c)
    \/ \E c \in Clients : MoveRead(c)
    \/ \E c \in Clients : MoveAnalyse(c)
    \/ \E c \in Clients : HintPosition(c)
    \/ \E c \in Clients : HintGo(c)
    \/ Deliver

\* the worker that has read a line handles it, and the lines it writes are
\* delivered
HandlerRuns ==
    \/ \E c \in Clients : FirstLine(c)
    \/ \E c \in Clients : ~MovePasses(c) /\ ~HintPasses(c) /\ Input(c)
    \/ \E c \in Clients : MovePosition(c)
    \/ \E c \in Clients : HintPosition(c)
    \/ Deliver

\* the worker that is in the middle of a conversation with the engine, which
\* answers, goes on with it
TalkGoesOn ==
    \E c \in Clients : MoveRead(c) \/ MoveAnalyse(c) \/ HintGo(c)

\* a handler has a step to take: a line was read and waits for its handler,
\* or lines were written and wait to be delivered
HandlerReady ==
    \/ server = "running" /\ pending # NoPending
    \/ pending = NoPending /\ last # NoLast

\* a worker is in the middle of a conversation with the engine and no other
\* step is half done
TalkReady ==
    /\ server = "running"
    /\ Quiet
    /\ \E c \in Clients : pc[c] \in {"move_d", "move_perft", "hint_go"}

\* every worker is a thread that is scheduled again and again, and the
\* engine answers: weak fairness of the handlers and strong fairness of the
\* conversations with the engine, the condition under which each is enabled
\* written out (HandlerReady, TalkReady)
SpecLocks ==
    /\ Init
    /\ [][NextLocks]_vars
    /\ WF_vars(Deliver)
    /\ []<>(~HandlerReady) \/ []<><<HandlerRuns>>_vars
    /\ <>[](~TalkReady) \/ []<><<TalkGoesOn>>_vars

\* ------------------------------------- three sessions that start again

\* the GameStates allocated in a run of three sessions
MaxGamesColours == 4

\* the lines of sessions that ask for either colour or for white, start
\* again, and move
ColourLines ==
    {Cmd("start", "human", "either"), Cmd("start", "human", "white"),
     Cmd("move", "e2e4", "")}

NextColours ==
    \/ \E c \in Clients : Connect(c)
    \/ \E c \in Clients, line \in ColourLines :
          /\ RoomFor(line, MaxGamesColours)
          /\ line.op = "start" => \E g \in GameIds : ~games[g].alive
          /\ ReadLine(c, line)
    \/ \E c \in Clients : FirstLine(c)
    \/ \E c \in Clients : Input(c)
    \/ Deliver

SpecColours == InitWith(Clients) /\ [][NextColours]_vars

\* ------------------------------------------- start lines with other words

\* start lines whose opponent or colour is no word of the protocol, and a
\* line whose first word is no command
BadLines ==
    {Cmd("start", "robot", "white"), Cmd("start", "human", "green"),
     Cmd("junk", "", "")}

\* the lines of the runs with such start lines
OddLines == BadLines \cup {Cmd("start", "human", "white"), Cmd("move", "e2e4", "")}

NextOdd ==
    \/ \E c \in Clients : Connect(c)
    \/ \E c \in Clients, line \in OddLines :
          RoomFor(line, MaxGames) /\ ReadLine(c, line)
    \/ \E c \in Clients : FirstLine(c)
    \/ \E c \in Clients : Input(c)
    \/ Deliver

SpecOdd == Init /\ [][NextOdd]_vars

\* ------------------------------------------------------------- properties

\* worker c is about to handle a line whose first word is op
Handles(c, op) == pending.who = c /\ pending.line.op = op

\* msg is among the lines just written to client c
Got(c, msg) == \E i \in 1..Len(sent[c]) : sent[c][i] = msg

Ok == Msg("ok", "", "")

\* the checks client_move makes before it asks the engine all pass
ReachesEngine(c, move) ==
    /\ cl[c].phase = "run"
    /\ GameOf(c).started
    /\ IsTurn(c)
    /\ move_string_valid(move)

\* C1: a client that sends "move m" is sent "ok" only if the position the
\* engine reports after the move differs from the game's position; a move
\* that reaches the engine and leaves the position as it was is answered
\* "error move" and nothing else (a worker whose GameState was freed may
\* crash before it answers, but never answers "ok"). The same holds of the
\* worker that reads the engine's answer in a step of its own
C1_OkOnlyIfEngineAccepted ==
    [][\A c \in Clients :
          /\ pc[c] = "move_d" /\ pc'[c] # "move_d" /\ Got(c, Ok)' =>
                EngineApply(GameOf(c).fenString, doing[c].a1)
                    # GameOf(c).fenString
          /\ Handles(c, "move") /\ cl[c].phase = "run" /\ pc'[c] # "move_d" =>
               /\ Got(c, Ok)' =>
                     EngineApply(GameOf(c).fenString, pending.line.a1)
                         # GameOf(c).fenString
               /\ /\ ReachesEngine(c, pending.line.a1)
                  /\ EngineApply(GameOf(c).fenString, pending.line.a1)
                         = GameOf(c).fenString
                  => \/ sent'[c] = <<ErrorMsg("move")>>
                     \/ /\ ~GameOf(c).alive
                        /\ server' = "crashed"
                        /\ sent'[c] = << >>
      ]_vars

\* a move the engine rejected has just been answered "error move"
C1_Witness ==
    /\ last.op = "move"
    /\ cl[last.who].phase = "run"
    /\ GameOf(last.who).alive
    /\ GameOf(last.who).started
    /\ sent[last.who] = <<ErrorMsg("move")>>

\* C2: when the engine has died, no client is sent "error engine" twice, and
\* once the server has exited its exit code is 5 and every client that was in
\* the registry when the engine died, and still is, has been sent
\* "error engine" exactly once
C2_ErrorEngineExactlyOnce ==
    /\ \A c \in Clients : errs[c] <= 1
    /\ server = "exited" =>
          /\ exitCode = ERROR_STOCKFISH_UNEXPECTED_EXIT
          /\ \A i \in 1..Len(connected) :
                connected[i] \in atDeath => errs[connected[i]] = 1

\* C3: once its opponent in a started game between humans has disconnected
\* (the opponent's slot of the GameState is empty), a client's move, hint or
\* resign is answered "error game"
C3_ErrorGameAfterOpponentLeft ==
    [][\A c \in Clients :
          /\ pending.who = c
          /\ pending.line.op \in {"move", "hint", "resign"}
          /\ cl[c].phase = "run"
          /\ cl[c].human
          /\ cl[c].hasPlayed
          /\ GameOf(c).alive
          /\ get_opponent(Memory("e2e4", FALSE), c) = NoClient
          => /\ sent'[c] = <<ErrorMsg("game")>>
             /\ server' = "running"
      ]_vars

\* C4: every client on the wait list has a running worker
C4_WaitListSessionsRun ==
    \A i \in 1..Len(waitList) : cl[waitList[i]].phase = "run"

\* the last step paired waiting client w with newcomer l
Paired(w, l) ==
    /\ last = Last(l, "start")
    /\ w # l
    /\ cl[l].human
    /\ cl[w].game = cl[l].game
    /\ sent[w] # << >>
    /\ sent[l] # << >>

Started(colour) == <<Msg("started", colour, "")>>

Opposite(colour) == IF colour = "white" THEN "black" ELSE "white"

\* the colour the spec gives a party that asked for mine when its partner
\* asked for theirs; first tells that the party is the one that waited
ColourFor(mine, theirs, first) ==
    IF mine # "either" THEN mine
    ELSE IF theirs # "either" THEN Opposite(theirs)
    ELSE IF first THEN "white" ELSE "black"

\* C5: when a waiting client w and a newcomer l are paired, each is sent
\* "started" with the colour the rules give it for what the two asked for in
\* their latest start lines, the two colours differ, and the slots of the
\* GameState hold the sessions that were told those colours
C5_ColoursFollowRequests ==
    \A w \in Clients, l \in Clients :
       Paired(w, l) =>
          /\ sent[w] = Started(ColourFor(cl[w].req, cl[l].req, TRUE))
          /\ sent[l] = Started(ColourFor(cl[l].req, cl[w].req, FALSE))
          /\ sent[w] # sent[l]
          /\ GameOf(l).whiteClient = (IF sent[w] = Started("white") THEN w ELSE l)
          /\ GameOf(l).blackClient = (IF sent[w] = Started("black") THEN w ELSE l)

\* two start lines ask for the same specific colour
SameSpecific(k1, k2) == k1 = k2 /\ k1 \in {"white", "black"}

\* C6: a newcomer that asks for a human opponent is paired only with a
\* waiting client that did not ask for the same specific colour; when every
\* waiting client asked for the same specific colour as the newcomer, the
\* newcomer is appended to the wait list, its GameState is not started and
\* it is sent nothing
C6_PairedOnlyIfCompatible ==
    [][\A l \in Clients :
          /\ pending.who = l
          /\ pending.line.op = "start"
          /\ pending.line.a1 = "human"
          => /\ \A w \in Clients \ {l} :
                   sent'[w] # << >> =>
                      ~SameSpecific(cl[w].req, pending.line.a2)
             /\ (\A i \in 1..Len(waitList) :
                     SameSpecific(cl[waitList[i]].req, pending.line.a2))
                => /\ waitList' = Append(waitList, l)
                   /\ ~GameOf(l).started'
                   /\ sent'[l] = << >>
      ]_vars

\* C7: a newcomer is put on the wait list only behind clients it is not
\* colour-compatible with (it would have been paired with the earliest
\* compatible one)
C7_ServedInArrivalOrder ==
    last.op = "append" =>
       \A i \in 1..(Len(waitList) - 1) :
          ~colours_may_match(Memory("e2e4", FALSE), waitList[i], last.who)

\* a gameover line for a resignation in the game whose position is fen
Resigned(fen) ==
    <<Msg("gameover", "resignation",
          IF next_player_from_fen_string(fen) = "w" THEN "black" ELSE "white")>>

\* C8: on resign in a started game the client and its human opponent, if
\* any, are sent the same "gameover resignation" line, whose winner is black
\* if white is to move in the game and white otherwise; the game is marked
\* ended and both sessions are in PREGAME
C8_ResignEndsGameForBoth ==
    [][\A c \in Clients :
          /\ pending.who = c
          /\ pending.line.op = "resign"
          /\ cl[c].phase = "run"
          /\ GameOf(c).started
          => /\ sent'[c] = Resigned(GameOf(c).fenString)
             /\ ~GameOf(c).started'
             /\ SessionState(c)' = "PREGAME"
             /\ \A o \in Clients \ {c} :
                   cl[c].human /\ o \in {GameOf(c).whiteClient,
                                         GameOf(c).blackClient}
                   => /\ sent'[o] = sent'[c]
                      /\ SessionState(o)' = "PREGAME"
      ]_vars

\* C9: in a started game a move string that is not 4 or 5 alphanumeric
\* characters is answered "error command", whoever's turn it is, and
\* "error turn" is sent only for a well-formed move made out of turn
C9_SyntaxBeforeTurn ==
    [][\A c \in Clients :
          /\ pending.who = c
          /\ pending.line.op = "move"
          /\ cl[c].phase = "run"
          /\ GameOf(c).alive
          /\ GameOf(c).started
          => /\ ~move_string_valid(pending.line.a1)
                => sent'[c] = <<ErrorMsg("command")>>
             /\ sent'[c] = <<ErrorMsg("turn")>>
                => move_string_valid(pending.line.a1) /\ ~IsTurn(c)
      ]_vars

\* the commands the spec has answered "error game" in PREGAME
PregameCmds == {"board", "move", "hint", "resign"}

\* the three lines of a board reply for the position the engine holds
BoardReply ==
    <<Msg("startboard", "", ""), Msg("board", enginePos, ""),
      Msg("endboard", "", "")>>

C11_WaitingErrorGame ==
    [][\A c \in Clients :
          /\ pending.who = c
          /\ pending.line.op \in {"move", "hint"}
          /\ SessionState(c) = "WAITING"
          => /\ sent' = [NoSent EXCEPT ![c] = <<ErrorMsg("game")>>]
             /\ asked' = "none"
             /\ waitList' = waitList
             /\ enginePos' = enginePos
             /\ GameOf(c)' = GameOf(c)
             /\ server' = "running"
      ]_vars

\* a waiting client's move has just been answered "error game"
C11_Witness ==
    /\ last.op = "move"
    /\ SessionState(last.who) = "WAITING"
    /\ asked = "none"
    /\ sent[last.who] = <<ErrorMsg("game")>>

\* the line is one of the protocol's commands
IsCommand(line) ==
    \/ line.op \in {"board", "move", "hint", "resign"}
    \/ line.op = "start" /\ line.a1 \in Opponents /\ line.a2 \in Colours

C12_JunkErrorCommand ==
    [][\A c \in Clients :
          /\ pending.who = c
          /\ pending.line.op = "junk"
          => /\ sent' = [NoSent EXCEPT ![c] = <<ErrorMsg("command")>>]
             /\ allocs' = allocs
             /\ waitList' = waitList
             /\ SessionState(c)' = SessionState(c)
      ]_vars

\* the number of "started" lines just written to client c
StartedLines(c) ==
    Cardinality({i \in 1..Len(sent[c]) : sent[c][i][1] = "started"})

PlaysHuman(c, o) ==
    /\ c # o
    /\ cl[c].phase = "run"
    /\ cl[o].phase = "run"
    /\ cl[c].human
    /\ cl[c].game = cl[o].game
    /\ GameOf(c).alive
    /\ GameOf(c).started
    /\ {GameOf(c).whiteClient, GameOf(c).blackClient} = {c, o}

IsVerdict(x, i) == sent[x][i][1] \in {"check", "gameover"}

\* C15: when a client that plays a human is answered "ok" for "move m",
\* every check or gameover line written to it in that step comes after the
\* "ok", and every check or gameover line written to another client in that
\* step comes after a "moved m" line to that client
C15_MovedBeforeVerdict ==
    [][\A c \in Clients :
          /\ Handles(c, "move")
          /\ cl[c].phase = "run"
          /\ cl[c].human
          /\ Got(c, Ok)'
          => /\ \A i \in 1..Len(sent'[c]) :
                   IsVerdict(c, i)' => \E j \in 1..(i - 1) : sent'[c][j] = Ok
             /\ \A x \in Clients \ {c} : \A i \in 1..Len(sent'[x]) :
                   IsVerdict(x, i)' =>
                      \E j \in 1..(i - 1) :
                         sent'[x][j] = Msg("moved", pending.line.a1, "")
      ]_vars

\* a move that gives check has just been answered: "ok" then "check" to the
\* mover, "moved" then "check" to its opponent
C15_Witness ==
    /\ last.op = "move"
    /\ cl[last.who].human
    /\ sent[last.who] = <<Ok, Msg("check", "", "")>>
    /\ \E x \in Clients \ {last.who} :
          sent[x] = <<Msg("moved", "d1h5", ""), Msg("check", "", "")>>

\* the "moved" lines among the lines just written to client c
MovedLines(c) == SelectSeq(sent[c], LAMBDA m : m[1] = "moved")

\* worker c, whose client plays the computer, has had its move accepted
\* (the client has been written "ok", the game's FEN is that after the move)
\* and now takes the step that analyses the position
AnalysesOwnMove(c) ==
    /\ pc[c] = "move_perft"
    /\ pc'[c] # "move_perft"
    /\ ~cl[c].human

\* C16: in a game against the computer, an accepted move that does not end
\* the game is followed, before the worker reads again, by exactly one
\* "moved <best>" line to the client, where best is a legal move of the
\* position after the client's move; the game's FEN is then the one after
\* both moves and it is the client's turn. After an accepted move that ends
\* the game no "moved" line is written, the FEN stays and the game is ended
C16_OneEngineMovePerMove ==
    [][\A c \in Clients :
          AnalysesOwnMove(c) =>
             /\ server' = "running"
             /\ pc'[c] = "read"
             /\ IF GameOf(c).fenString \in TerminalFens
                THEN /\ MovedLines(c)' = << >>
                     /\ GameOf(c)'.fenString = GameOf(c).fenString
                     /\ ~GameOf(c)'.started
                ELSE /\ Len(MovedLines(c)') = 1
                     /\ EngineApply(GameOf(c).fenString, MovedLines(c)'[1][2])
                           # GameOf(c).fenString
                     /\ GameOf(c)'.fenString =
                           EngineApply(GameOf(c).fenString, MovedLines(c)'[1][2])
                     /\ IsTurn(c)'
      ]_vars

\* C17: every "start computer white" and "start computer black" line, the
\* first of a session or a later one, is answered "started" with the colour
\* of the line; the client then has a new GameState, started, with the
\* client in the slot of that colour and nobody in the other; for white
\* nothing else is written and the game is at the initial position, for
\* black one "moved <best>" follows (and the verdict on that move, if any)
\* and the game is at the position after it
C17_StartComputerAsAsked ==
    [][\A c \in Clients :
          /\ Handles(c, "start")
          /\ pending.line.a1 = "computer"
          /\ pending.line.a2 \in {"white", "black"}
          =>
          /\ server' = "running"
          /\ sent'[c] # << >>
          /\ sent'[c][1] = Msg("started", pending.line.a2, "")
          /\ cl'[c].game # 0
          /\ cl'[c].game # cl[c].game
          /\ GameOf(c)'.alive
          /\ GameOf(c)'.started = (GameOf(c)'.fenString \notin TerminalFens)
          /\ IF pending.line.a2 = "white"
             THEN /\ GameOf(c)'.whiteClient = c
                  /\ GameOf(c)'.blackClient = NoClient
                  /\ Len(sent'[c]) = 1
                  /\ GameOf(c)'.fenString = initialFen
             ELSE /\ GameOf(c)'.blackClient = c
                  /\ GameOf(c)'.whiteClient = NoClient
                  /\ Len(sent'[c]) >= 2
                  /\ sent'[c][2][1] = "moved"
                  /\ Len(MovedLines(c)') = 1
                  /\ GameOf(c)'.fenString # initialFen
                  /\ GameOf(c)'.fenString =
                        EngineApply(initialFen, sent'[c][2][2])
      ]_vars

\* the line the position fen calls for: from the engine's move list and
\* checkers field of that position
VerdictOf(fen) ==
    CASE StatusOf(EngineCheckers(fen), EngineMoves(fen)) = "CHECKMATE" ->
           <<Msg("gameover", "checkmate",
                 IF next_player_from_fen_string(fen) = "w"
                 THEN "black" ELSE "white")>>
      [] StatusOf(EngineCheckers(fen), EngineMoves(fen)) = "STALEMATE" ->
           <<Msg("gameover", "stalemate", "")>>
      [] StatusOf(EngineCheckers(fen), EngineMoves(fen)) = "CHECK" ->
           <<Msg("check", "", "")>>
      [] OTHER -> << >>

\* the "check" and "gameover" lines among the lines just written to x
VerdictLines(x) ==
    SelectSeq(sent[x], LAMBDA m : m[1] \in {"check", "gameover"})

\* what a step that judges the accepted move of c, leading to position fen,
\* must have done: the verdict on fen to c, then in a game against the
\* computer the verdict on the position after the computer's move, if it
\* made one; to a human opponent the verdict on fen; and the game is
\* started exactly if its position is not a final one
Judged(c, fen) ==
    /\ server' = "running"
    /\ VerdictLines(c)' =
          VerdictOf(fen) \o (IF GameOf(c)'.fenString # fen
                             THEN VerdictOf(GameOf(c)'.fenString) ELSE << >>)
    /\ cl[c].human => GameOf(c)'.fenString = fen
    /\ cl[c].human =>
          \A o \in Clients \ {c} :
             o \in {GameOf(c).whiteClient, GameOf(c).blackClient} =>
                VerdictLines(o)' = VerdictOf(fen)
    /\ GameOf(c)'.started = (GameOf(c)'.fenString \notin TerminalFens)

\* C18: after every accepted move the position is classified from the
\* engine's move list and checkers field for that position: "gameover
\* checkmate <winner>", "gameover stalemate", "check" or no line, written
\* to the client that moved and to its human opponent, and the game is no
\* longer started after a gameover; the same for the computer's move
C18_VerdictOfThePosition ==
    [][\A c \in Clients :
          /\ pc[c] = "move_perft" /\ pc'[c] # "move_perft" =>
                Judged(c, GameOf(c).fenString)
          /\ /\ Handles(c, "move")
             /\ cl[c].phase = "run"
             /\ pc'[c] # "move_d"
             /\ Got(c, Ok)'
             => Judged(c, EngineApply(GameOf(c).fenString, pending.line.a1))
      ]_vars

\* the step has answered the hint of client c with the engine's answer for
\* the position of c's game, and has left every GameState as it was
HintAnswered(c, option) ==
    /\ games' = games
    /\ Len(sent'[c]) = 1
    /\ sent'[c][1][1] = "moves"
    /\ IF option = "best"
       THEN EngineApply(GameOf(c).fenString, sent'[c][1][2])
                # GameOf(c).fenString
       ELSE sent'[c][1][2] = JoinMoves(EngineMoves(GameOf(c).fenString))

\* C19: in a started game "hint best" is answered "moves <best>" with a
\* move the engine plays in the position of the game, and "hint all" is
\* answered "moves" and the engine's legal moves of that position; neither
\* changes the FEN, the started flag or the player slots of any game
C19_HintForOwnPosition ==
    [][\A c \in Clients :
          /\ pc[c] = "hint_go" /\ pc'[c] # "hint_go" =>
                HintAnswered(c, doing[c].a1)
          /\ /\ Handles(c, "hint")
             /\ pending.line.a1 \in {"best", "all"}
             /\ cl[c].phase = "run"
             /\ cl[c].game # NoGame
             /\ GameOf(c).alive
             /\ GameOf(c).started
             /\ pc'[c] # "hint_go"
             => HintAnswered(c, pending.line.a1)
      ]_vars

\* C20: whenever a worker has sent the engine a command in its last step,
\* it held the engine lock for every command of that step, and no other
\* worker was holding the engine lock in the middle of a conversation of
\* its own
C20_EngineUnderLock ==
    /\ asked # "unlocked"
    /\ asked # "none" =>
          \A c \in Clients : engineLock = c => last.who = c

\* C21: a worker that has sent the engine a command in a step at whose end
\* the engine is dead is in handle_stockfish_exit and the server has not
\* crashed; and once the server has exited, its exit code is 5 and every
\* client that was in the registry when the engine died, and still is, has
\* been sent "error engine"
C21_EngineFailureIsFatal ==
    [][/\ \A c \in Clients :
             pending.who = c /\ asked' # "none" /\ ~engineAlive' =>
                server' = "running" /\ pc'[c] = "hse_notify"
       /\ server' = "exited" =>
             /\ exitCode' = ERROR_STOCKFISH_UNEXPECTED_EXIT
             /\ \A i \in 1..Len(connected') :
                   connected'[i] \in atDeath' => errs'[connected'[i]] >= 1
      ]_vars

\* the errors of the protocol that concern one client's command
LocalErrors ==
    {ErrorMsg("command"), ErrorMsg("game"), ErrorMsg("turn"), ErrorMsg("move")}

\* the step has answered the line of client c with one of those errors
AnsweredError(c) ==
    /\ pending.who = c
    /\ pending' = NoPending
    /\ \E i \in 1..Len(sent'[c]) : sent'[c][i] \in LocalErrors

\* C22: a step that answers a command with "error command", "error game",
\* "error turn" or "error move" writes that one line and nothing to any
\* other client, leaves every GameState (FEN, started flag, player slots),
\* the wait list, the registry and every Client struct as they were, and
\* leaves the worker reading and the server running
C22_ErrorsAreLocal ==
    [][\A c \in Clients :
          AnsweredError(c) =>
             /\ Len(sent'[c]) = 1
             /\ \A x \in Clients \ {c} : sent'[x] = << >>
             /\ games' = games
             /\ waitList' = waitList
             /\ connected' = connected
             /\ cl' = cl
             /\ pc'[c] = "read"
             /\ server' = "running"
      ]_vars

\* a move the engine rejected has just been answered "error move" in a
\* started game between two clients
C22_Witness ==
    /\ last.op = "move"
    /\ sent[last.who] = <<ErrorMsg("move")>>
    /\ cl[last.who].human
    /\ GameOf(last.who).started
    /\ GameOf(last.who).whiteClient # NoClient
    /\ GameOf(last.who).blackClient # NoClient

\* C23: every GameState that has been created and not destroyed is pointed
\* at by one or two sessions: no step ends with one that no session points
\* at, and none is pointed at by three (a session has one GameState pointer,
\* so it references at most one)
C23_GameStatesReferenced ==
    /\ "orphan" \notin marks
    /\ \A g \in GameIds :
          games[g].alive => Cardinality(Referrers(cl, g)) \in {1, 2}

\* the player slots of GameState g that hold a client
Players(g) == {games[g].whiteClient, games[g].blackClient} \ {NoClient}

\* GameState g is that of a game against the computer: it was built for a
\* client that did not ask for a human opponent
AgainstComputer(g) == \E c \in Players(g) : ~cl[c].human

\* C24: a GameState with started = true has both player slots filled, or
\* one slot filled by a client that plays the computer; a started GameState
\* of a game between humans never has an empty slot
C24_StartedGamesHavePlayers ==
    \A g \in GameIds :
       games[g].alive /\ games[g].started =>
          \/ Cardinality(Players(g)) = 2
             /\ games[g].whiteClient # NoClient
             /\ games[g].blackClient # NoClient
          \/ Cardinality(Players(g)) = 1 /\ AgainstComputer(g)

\* C25: every entry of the wait list is a session that wants a human
\* opponent, is a player of no started game, and holds a GameState that is
\* not started and that no other session points at, as long as the server
\* runs
C25_WaitListEntriesWait ==
    server = "running" =>
    \A i \in 1..Len(waitList) :
       /\ cl[waitList[i]].human
       /\ \A g \in GameIds :
             games[g].alive /\ games[g].started => waitList[i] \notin Players(g)
       /\ cl[waitList[i]].game # NoGame
       /\ games[cl[waitList[i]].game].alive
       /\ ~games[cl[waitList[i]].game].started
       /\ Referrers(cl, cl[waitList[i]].game) \subseteq {waitList[i]}

\* the clients whose worker has been created, or is about to be, and has
\* not ended
Sessions == {c \in Clients : cl[c].phase \in {"accepted", "info", "run", "lost"}}

\* C26: as long as the server runs the registry holds the sessions whose
\* worker has not ended, each once; and the worker created for a connection
\* is handed the Client struct of that connection
C26_RegistryOfLiveSessions ==
    /\ [](server = "running" =>
            /\ {connected[i] : i \in 1..Len(connected)} = Sessions
            /\ Len(connected) = Cardinality(Sessions))
    /\ [][\A c \in Clients :
             cl[c].phase = "accepted" /\ cl'[c].phase # "accepted"
                => cl'[c].phase = "info" /\ server' = "running"]_vars

\* C27: in a run without undefined behaviour, no step of a worker takes the
\* engine's lock while it holds a GameState's lock ("order"), and none takes
\* the engine's lock or a GameState's lock while it holds the lock of the
\* wait list or of the registry ("leaf")
C27_LockOrder ==
    server = "running" /\ ~ub => "order" \notin marks /\ "leaf" \notin marks

\* C28: no step of a worker sends the engine a command, or reads its reply,
\* while the worker holds a GameState's lock
C28_NoEngineTalkUnderGameLock == "engine_under_game_lock" \notin marks

\* worker c is in read_line, waiting for the next line of its client
WaitsForLine(c) ==
    /\ server = "running"
    /\ cl[c].phase \in {"info", "run"}
    /\ pc[c] = "read"
    /\ pending.who # c

\* C29: a worker that waits for the next line of its client holds neither
\* the engine's lock nor a GameState's lock, and it came back from its last
\* step without the lock of the wait list or of the registry
C29_NoLockWhileReading ==
    \A c \in Clients :
       WaitsForLine(c) =>
          /\ engineLock # c
          /\ \A g \in GameIds : gameLocks[g] # c
          /\ last.who = c => "list_lock_kept" \notin marks

\* a worker waits for the next line after a move that was answered ok, for
\* which it took the engine's lock and its GameState's lock
C29_Witness ==
    \E c \in Clients :
       /\ WaitsForLine(c)
       /\ last = Last(c, "move")
       /\ Len(sent[c]) > 0
       /\ sent[c][1] = Msg("ok", "", "")
       /\ engineLock = NoClient
       /\ gameLocks[cl[c].game] = NoClient

\* C30: in a run without undefined behaviour, no step of a worker writes a
\* player slot, the started flag or the FEN of a GameState without holding
\* that GameState's lock, or an entry of the wait list or of the registry
\* without holding that list's lock
C30_WritesUnderLock ==
    server = "running" /\ ~ub => "bare_write" \notin marks

\* the sessions other than c that occupy a slot of the GameState c points at
\* and point at it themselves
OpponentsPresent(c) ==
    {d \in Players(cl[c].game) \ {c} :
        cl[d].phase = "run" /\ cl[d].game = cl[c].game}

\* C31: when the connection of a client that holds a GameState closes, the
\* GameState is destroyed if no other session occupies a slot of it (it is
\* then neither left alive nor leaked), and otherwise it stays alive for the
\* opponent, with the leaving client in none of its slots
C31_DepartureDestroysUnsharedGame ==
    [][\A c \in Clients :
          /\ Handles(c, "eof")
          /\ cl[c].phase = "run"
          /\ cl[c].game # NoGame
          /\ GameOf(c).alive
          /\ server' = "running"
          => IF OpponentsPresent(c) = {}
             THEN /\ ~games'[cl[c].game].alive
                  /\ "orphan" \notin marks'
             ELSE /\ games'[cl[c].game].alive
                  /\ games'[cl[c].game].whiteClient # c
                  /\ games'[cl[c].game].blackClient # c
      ]_vars

\* C32: the two slots of a GameState that is marked started never hold the
\* same client
C32_NeverPairedWithItself ==
    \A g \in GameIds :
       games[g].started /\ games[g].whiteClient # NoClient
          => games[g].whiteClient # games[g].blackClient

\* C33: no worker has read, written or freed a GameState that was freed
\* before
C33_NoUseAfterDestroy == ~ub

\* the colour client c plays in the GameState it points at: that of the slot
\* it occupies
ColourOf(c) == IF GameOf(c).whiteClient = c THEN "white" ELSE "black"

\* C34: when a client resigns or disconnects in a started game, every
\* "gameover resignation" line written names as winner the colour of that
\* client's opponent, whichever side is to move
C34_ResignationWinnerIsOpponent ==
    [][\A c \in Clients :
          /\ Handles(c, "resign") \/ Handles(c, "eof")
          /\ cl[c].phase = "run"
          /\ cl[c].game # NoGame
          /\ GameOf(c).alive
          /\ GameOf(c).started
          /\ c \in Players(cl[c].game)
          /\ GameOf(c).whiteClient # GameOf(c).blackClient
          => \A d \in Clients : \A i \in 1..Len(sent'[d]) :
                sent'[d][i][1] = "gameover" /\ sent'[d][i][2] = "resignation"
                   => sent'[d][i][3] = Opposite(ColourOf(c))
      ]_vars

\* C35: in a run without undefined behaviour no connected client has been
\* sent two gameover lines since it was last sent "started"
C35_OneGameoverPerGame ==
    ~ub => \A c \in Clients : cl[c].phase = "run" => overs[c] <= 1

\* C36: the board a client is sent in reply to "board" is that of the FEN of
\* the GameState the client points at, whether that game is running or has
\* ended
C36_BoardOfOwnGame ==
    [][\A c \in Clients :
          /\ Handles(c, "board")
          /\ cl[c].phase = "run"
          /\ GameOf(c).alive
          => \A i \in 1..Len(sent'[c]) :
                sent'[c][i][1] = "board"
                   => sent'[c][i][2] = GameOf(c).fenString
      ]_vars

\* every request read so far has been handled to its end
AllHandled ==
    /\ server = "running"
    /\ pending = NoPending
    /\ \A c \in Clients : pc[c] = "read"

\* C37: once every start request has been handled, no two connected clients
\* whose colours are compatible are both on the wait list
C37_NoCompatiblePairLeftWaiting ==
    AllHandled =>
       \A i \in 1..Len(waitList), j \in 1..Len(waitList) :
          /\ waitList[i] # waitList[j]
          /\ cl[waitList[i]].phase = "run"
          /\ cl[waitList[j]].phase = "run"
          => ~colours_may_match(Memory("e2e4", FALSE), waitList[i], waitList[j])

\* some lock is held by a worker between two steps
SomeLockHeld ==
    \/ engineLock # NoClient
    \/ \E g \in GameIds : gameLocks[g] # NoClient

HumanGame(g) ==
    /\ games[g].alive
    /\ games[g].started
    /\ games[g].whiteClient # NoClient
    /\ games[g].blackClient # NoClient
    /\ games[g].whiteClient # games[g].blackClient
    /\ \A d \in Players(g) :
          cl[d].phase = "run" /\ cl[d].game = g /\ cl[d].human

\* the move worker c is answering in this step
MoveOf(c) == IF pending.who = c THEN pending.line.a1 ELSE doing[c].a1

\* this step answers a move of client c with "ok"
Accepted(c) ==
    /\ \/ Handles(c, "move") /\ cl[c].phase = "run"
       \/ pc[c] = "move_d" /\ pending = NoPending
    /\ Got(c, Ok)'

\* C39: in a started game between two humans a move is answered "ok" only
\* when the side to move is the side of the slot the mover occupies (so that
\* accepted moves alternate, white first, and a client that has moved is
\* refused until its opponent has), the FEN after an accepted move is the one
\* the engine gave for that move, with the other side to move, and the FEN
\* changes in no other step
C39_MovesAlternate ==
    [][\A g \in GameIds :
          HumanGame(g) =>
             /\ \A c \in Players(g) :
                   Accepted(c) =>
                      /\ next_player_from_fen_string(games[g].fenString)
                            = (IF games[g].whiteClient = c THEN "w" ELSE "b")
                      /\ games'[g].fenString
                            = EngineApply(games[g].fenString, MoveOf(c))
                      /\ next_player_from_fen_string(games'[g].fenString)
                            # next_player_from_fen_string(games[g].fenString)
             /\ games'[g].alive /\ games'[g].fenString # games[g].fenString
                   => \E c \in Players(g) : Accepted(c)
      ]_vars

\* C40: while the server runs and no freed GameState has been used, no
\* session is on the wait list twice
C40_WaitListWithoutRepeats ==
    server = "running" /\ ~ub =>
       \A i \in 1..Len(waitList), j \in 1..Len(waitList) :
          i # j => waitList[i] # waitList[j]

====
